---- MODULE Spec2Model ----
(***************************************************************************)
(* The Arx supervisor: the nodes table behind db.Queries (the registry),   *)
(* the routing service, the HTTP handlers of the public and admin API, the *)
(* health monitor and the websocket hub that fans events out to clients.   *)
(***************************************************************************)
EXTENDS Integers, Sequences, FiniteSets, TLC

\* ------------------------------------------------------------------ bounds
MaxNodes == 2        \* rows ever inserted into the nodes table
MaxEvents == 2       \* messages the hub accepts in one behaviour
NumClients == 2      \* websocket connections ever opened
SendCap == 1         \* capacity of a client's send channel (256 in the plan)
NumReqs == 1         \* HTTP requests in flight at once
MaxChecks == 2       \* checkNode goroutines in flight at once
MaxRoutes == 1        \* routing requests answered with a node, in SpecRouting
MaxList == 3         \* nodes in a list handed to a routing function
MaxConns == 3        \* active connections of a node handed to CalculateLoadScore
MaxMore == 2         \* connections added to compare two scores

\* ------------------------------------------------------- program constants
KNearest == 3                  \* the k RouteRequest passes to FindKNearestNodes
DefaultCapacity == 100         \* CreateNode's default when capacity is 0
FailureThreshold == 3          \* HEALTH_FAILURE_THRESHOLD default
RecoveryThreshold == 2         \* the recovery threshold of the specification
StatusOK == 200
StatusCreated == 201
StatusNoContent == 204
StatusBadRequest == 400
StatusNotFound == 404
StatusInternalServerError == 500
StatusServiceUnavailable == 503

Statuses == {"inactive", "active", "healthy", "unhealthy"}
NodeIds == 1..MaxNodes
NodeLocs == {<<0, 0>>, <<3, 4>>}      \* locations given to nodes
ReqLocs == {<<0, 0>>, <<3, 0>>}       \* coordinates of routing requests
CpuVals == {0, 50}
ConnVals == {0, 1}
CapVals == {2}
NoNode == 0                            \* uuid.Nil / no node

VARIABLES
    nodes,       \* the nodes table: id -> row, for the rows present
    nextId,      \* ids handed out so far (gen_random_uuid never repeats)
    req,         \* the HTTP requests in flight: slot -> record
    clients,     \* Hub.clients
    send,        \* Client.send of every connection: the buffered messages
    closed,      \* the connections whose send channel is closed
    hub,         \* Hub.Run's position: [pc, msg, todo]
    conn,        \* every connection's position
    delivered,   \* what each connection's writePump has taken from send
    published,   \* the messages Hub.Run has received on Broadcast, in order
    joined,      \* Len(published) when the hub registered the connection
    left,        \* Len(published) when the hub removed the connection, or -1
    checks,      \* the checkNode goroutines in flight (node ids)
    up,          \* whether each node's health endpoint answers
    failStreak,  \* consecutive checkNode runs that found the endpoint down
    okStreak,    \* consecutive checkNode runs that found the endpoint up
    main,        \* main's position: "serving", "shutdown" (after <-quit), "exited"
    calc         \* a call of one of the routing package's functions: [fn, in, out]

regVars == <<nodes, nextId>>
hubVars == <<clients, send, closed, hub, conn, delivered, published, joined, left>>
auxVars == <<main, calc>>
monVars == <<checks, up, failStreak, okStreak, auxVars>>
vars == <<nodes, nextId, req, clients, send, closed, hub, conn, delivered,
          published, joined, left, checks, up, failStreak, okStreak, main, calc>>

\* ---------------------------------------------------------------- helpers
Max(S) == CHOOSE x \in S : \A y \in S : y <= x

RECURSIVE DescSeq(_)
DescSeq(S) == IF S = {} THEN <<>> ELSE <<Max(S)>> \o DescSeq(S \ {Max(S)})

Range(s) == {s[i] : i \in 1..Len(s)}

Sqrt(n) == CHOOSE r \in 0..n : r * r = n

\* no call of a routing function is being looked at
NoCall == [fn |-> "none", in |-> <<>>, out |-> <<>>, panic |-> FALSE]

\* ------------------------------------------------- db/queries/nodes.sql
\* A row of the nodes table (migration 00001); cpu_usage, memory_usage and
\* active_connections default to 0.
NewRow(id, loc, capacity, status) ==
    [id |-> id, x |-> loc[1], y |-> loc[2], capacity |-> capacity,
     status |-> status, cpu |-> 0, mem |-> 0, conns |-> 0]

\* the zero value of db.Node
ZeroRow == NewRow(NoNode, <<0, 0>>, 0, "")

\* -- name: GetNodeByID :one   (sql.ErrNoRows when the id is absent)
GetNodeByID(tbl, id) ==
    IF id \in DOMAIN tbl THEN [found |-> TRUE, row |-> tbl[id]]
    ELSE [found |-> FALSE, row |-> ZeroRow]

\* -- name: GetAllNodes :many   (ORDER BY created_at DESC)
GetAllNodes(tbl) == [i \in 1..Cardinality(DOMAIN tbl) |-> tbl[DescSeq(DOMAIN tbl)[i]]]

\* -- name: GetHealthyNodes :many   (a wrong status literal in the WHERE)
GetHealthyNodesWrongStatus(tbl) ==
    SelectSeq(GetAllNodes(tbl), LAMBDA row : row.status = "active")

\* -- name: GetHealthyNodes :many
GetHealthyNodes(tbl) ==
    SelectSeq(GetAllNodes(tbl), LAMBDA row : row.status = "healthy")

\* -- name: CreateNode :one
CreateNode(loc, capacity, status) ==
    /\ nextId < MaxNodes
    /\ nextId' = nextId + 1
    /\ nodes' = [id \in DOMAIN nodes \cup {nextId + 1} |->
                    IF id = nextId + 1 THEN NewRow(id, loc, capacity, status)
                    ELSE nodes[id]]

\* -- name: UpdateNodeHealth :one   (no row when the id is absent)
UpdateNodeHealth(id, status, cpu, mem, conns) ==
    /\ id \in DOMAIN nodes
    /\ nodes' = [nodes EXCEPT ![id].status = status, ![id].cpu = cpu,
                              ![id].mem = mem, ![id].conns = conns]
    /\ UNCHANGED nextId

\* -- name: UpdateNode :one   (every column is written)
UpdateNode(id, loc, capacity, status, cpu, mem, conns) ==
    /\ id \in DOMAIN nodes
    /\ nodes' = [nodes EXCEPT ![id] =
                    [id |-> id, x |-> loc[1], y |-> loc[2], capacity |-> capacity,
                     status |-> status, cpu |-> cpu, mem |-> mem, conns |-> conns]]
    /\ UNCHANGED nextId

\* -- name: DeleteNode :exec
DeleteNode(id) ==
    /\ id \in DOMAIN nodes
    /\ nodes' = [i \in DOMAIN nodes \ {id} |-> nodes[i]]
    /\ UNCHANGED nextId

\* ------------------------------------------- internal/routing/service.go
\* convertDBNodeToModel copies the row field by field.
convertDBNodeToModel(row) ==
    [ID |-> row.id, LocationX |-> row.x, LocationY |-> row.y,
     Capacity |-> row.capacity, Status |-> row.status, CPUUsage |-> row.cpu,
     MemoryUsage |-> row.mem, ActiveConnections |-> row.conns]

\* the distance without the squares and the root
CalculateDistanceSigned(x1, y1, x2, y2) == (x1 - x2) + (y1 - y2)

\* math.Sqrt((x1-x2)^2 + (y1-y2)^2); the coordinates of the model are chosen
\* so that every distance is a whole number.
CalculateDistance(x1, y1, x2, y2) ==
    Sqrt((x1 - x2) * (x1 - x2) + (y1 - y2) * (y1 - y2))

\* the score with connScore clamped to 1.0
CalculateLoadScoreClamped(node) ==
    <<(4 * node.CPUUsage + 3 * node.MemoryUsage) * node.Capacity
        + 300 * (IF node.ActiveConnections > node.Capacity THEN node.Capacity
                 ELSE node.ActiveConnections),
      1000 * node.Capacity>>

\* 0.4*cpu/100 + 0.3*mem/100 + 0.3*conns/capacity as the fraction
\* <<numerator, denominator>> over 1000 * capacity.
CalculateLoadScore(node) ==
    <<(4 * node.CPUUsage + 3 * node.MemoryUsage) * node.Capacity
        + 300 * node.ActiveConnections,
      1000 * node.Capacity>>

\* score a < score b, for positive capacities
ScoreLess(a, b) == a[1] * b[2] < b[1] * a[2]

\* sort.Slice on at most 12 elements is an insertion sort: an element moves
\* left while it is strictly less than its left neighbour.
RECURSIVE InsertByDistance(_, _)
InsertByDistance(sorted, e) ==
    IF sorted = <<>> THEN <<e>>
    ELSE IF e.Distance < sorted[Len(sorted)].Distance
         THEN InsertByDistance(SubSeq(sorted, 1, Len(sorted) - 1), e)
                \o <<sorted[Len(sorted)]>>
         ELSE Append(sorted, e)

RECURSIVE SortByDistance(_)
SortByDistance(s) ==
    IF s = <<>> THEN <<>>
    ELSE InsertByDistance(SortByDistance(SubSeq(s, 1, Len(s) - 1)), s[Len(s)])

\* sort.Slice is pdqsort (Go 1.21): a slice of at most 12 elements is sorted by
\* insertion; a longer one is partitioned around a pivot first.
MaxInsertion == 12

\* less(i, j) of the call: nodesWithDistance[i].Distance < nodesWithDistance[j].Distance
Less(s, i, j) == s[i].Distance < s[j].Distance

Swap(s, i, j) == [s EXCEPT ![i] = s[j], ![j] = s[i]]

\* order2: the two indices in the order of their elements, and 1 if swapped
Order2(s, a, b) == IF Less(s, b, a) THEN <<b, a, 1>> ELSE <<a, b, 0>>

\* choosePivot for 8 to 49 elements: the median of the elements at the three
\* quarter positions, and how many of the three comparisons were out of order
ChoosePivot(s) ==
    LET q == Len(s) \div 4
        o1 == Order2(s, 1 + q, 1 + 2 * q)
        o2 == Order2(s, o1[2], 1 + 3 * q)
        o3 == Order2(s, o1[1], o2[1])
    IN  [pivot |-> o3[2], swaps |-> o1[3] + o2[3] + o3[3]]

\* partialInsertionSort on fewer than 50 elements: true exactly when the slice
\* is in order already
PartialInsertionSort(s) == \A i \in 2..Len(s) : ~Less(s, i, i - 1)

\* for i <= j && less(i, a) { i++ }, the pivot being at a = 1
RECURSIVE ScanUp(_, _, _)
ScanUp(s, i, j) == IF i <= j /\ Less(s, i, 1) THEN ScanUp(s, i + 1, j) ELSE i

\* for i <= j && !less(j, a) { j-- }
RECURSIVE ScanDown(_, _, _)
ScanDown(s, i, j) == IF i <= j /\ ~Less(s, j, 1) THEN ScanDown(s, i, j - 1) ELSE j

\* the loop of partition: scan, swap the pair found, until the scans cross;
\* then the pivot goes to where they crossed
RECURSIVE PartitionLoop(_, _, _)
PartitionLoop(s, i, j) ==
    LET i2 == ScanUp(s, i, j)
        j2 == ScanDown(s, i2, j)
    IN  IF i2 > j2 THEN [s |-> Swap(s, j2, 1), mid |-> j2]
        ELSE PartitionLoop(Swap(s, i2, j2), i2 + 1, j2 - 1)

\* partition: the pivot is swapped to the front first
Partition(s, pivot) == PartitionLoop(Swap(s, 1, pivot), 2, Len(s))

\* pdqsort on 13 to 24 elements whose two sides after the first partition have
\* at most 12 elements each (every slice of 13 elements)
PdqSort(s) ==
    LET c == ChoosePivot(s)
        p == Partition(s, c.pivot)
    IN  IF c.swaps = 0 /\ PartialInsertionSort(s) THEN s
        ELSE SortByDistance(SubSeq(p.s, 1, p.mid - 1)) \o <<p.s[p.mid]>>
                \o SortByDistance(SubSeq(p.s, p.mid + 1, Len(s)))

\* sort.Slice(nodesWithDistance, less)
SortSlice(s) == IF Len(s) <= MaxInsertion THEN SortByDistance(s) ELSE PdqSort(s)

\* make([]models.Node, 0, k) panics when k is negative (k is not a constant)
MakeSlicePanics(k) == k < 0

\* the result for k >= 0
FindKNearestNodes(ns, x, y, k) ==
    LET healthy == SelectSeq(ns, LAMBDA n : n.Status = "healthy")
        nodesWithDistance ==
            [i \in 1..Len(healthy) |->
                [Node |-> healthy[i],
                 Distance |-> CalculateDistance(x, y, healthy[i].LocationX,
                                                healthy[i].LocationY)]]
        sorted == SortSlice(nodesWithDistance)
        n == IF k < Len(sorted) THEN k ELSE Len(sorted)
    IN  [i \in 1..n |-> sorted[i].Node]

\* the loop of SelectBestNode: best is replaced only by a strictly lower score
RECURSIVE BestFrom(_, _, _)
BestFrom(ns, i, best) ==
    IF i > Len(ns) THEN best
    ELSE IF ScoreLess(CalculateLoadScore(ns[i]), CalculateLoadScore(best))
         THEN BestFrom(ns, i + 1, ns[i])
         ELSE BestFrom(ns, i + 1, best)

\* models.Node{}: the zero value
ZeroNode ==
    [ID |-> NoNode, LocationX |-> 0, LocationY |-> 0, Capacity |-> 0, Status |-> "",
     CPUUsage |-> 0, MemoryUsage |-> 0, ActiveConnections |-> 0]

\* the loop with score <= bestScore: the last of the lowest scores wins
SelectBestNodeLast(ns) ==
    LET RECURSIVE BestFromLast(_, _)
        BestFromLast(i, best) ==
            IF i > Len(ns) THEN best
            ELSE IF ~ScoreLess(CalculateLoadScore(best), CalculateLoadScore(ns[i]))
                 THEN BestFromLast(i + 1, ns[i])
                 ELSE BestFromLast(i + 1, best)
    IN  IF Len(ns) = 0 THEN ZeroNode ELSE BestFromLast(2, ns[1])

SelectBestNode(ns) ==
    IF Len(ns) = 0 THEN ZeroNode ELSE BestFrom(ns, 2, ns[1])

\* -------------------------------------- calls of the routing functions
\* a models.Node as the routing functions read it
ModelNode(id, x, status, cpu, mem, conns, capacity) ==
    [ID |-> id, LocationX |-> x, LocationY |-> 0, Capacity |-> capacity,
     Status |-> status, CPUUsage |-> cpu, MemoryUsage |-> mem,
     ActiveConnections |-> conns]

\* nodes on the x axis: 1 and 2 are equally far from the origin and equally
\* loaded, 4 is the nearest to the origin and not healthy
Pool ==
    {ModelNode(1, 1, "healthy", 50, 0, 0, 2),
     ModelNode(2, -1, "healthy", 50, 0, 0, 2),
     ModelNode(3, 2, "healthy", 0, 0, 0, 2),
     ModelNode(4, 0, "unhealthy", 0, 0, 0, 2),
     ModelNode(5, -2, "healthy", 100, 50, 3, 2)}

\* the lists of at most MaxList different nodes of the pool
NodeLists ==
    UNION {{l \in [1..m -> Pool] : \A i \in 1..m : \A j \in 1..m : l[i] = l[j] => i = j} :
              m \in 0..MaxList}

\* thirteen healthy nodes on the x axis in the order GetHealthyNodes returns
\* them: the third and the seventh are equally far from the origin
ThirteenXs == <<1, 2, 3, 4, 5, 6, -3, 7, 8, 9, 10, 11, 12>>
ThirteenNodes ==
    [i \in 1..Len(ThirteenXs) |-> ModelNode(i, ThirteenXs[i], "healthy", 0, 0, 0, 2)]

CalcPoints == {<<0, 0>>, <<3, 4>>, <<-3, -4>>, <<3, -4>>, <<-3, 4>>}
CalcCoords == {<<0, 0>>, <<1, 0>>}

Called(fn, in, out) == [fn |-> fn, in |-> in, out |-> out, panic |-> FALSE]
calcRest == <<regVars, req, hubVars, checks, up, failStreak, okStreak, main>>

\* CalculateLoadScore(node), and again with more active connections
CallCalculateLoadScore ==
    \E cpu \in {0, 50, 100}, mem \in {0, 50}, capacity \in {1, 2, 4},
       conns \in 0..MaxConns, more \in 0..MaxMore :
        LET node == ModelNode(1, 0, "healthy", cpu, mem, conns, capacity)
            busier == [node EXCEPT !.ActiveConnections = conns + more]
        IN  /\ calc' = Called("CalculateLoadScore", [node |-> node, more |-> more],
                           [base |-> CalculateLoadScore(node),
                            raised |-> CalculateLoadScore(busier)])
            /\ UNCHANGED calcRest

\* CalculateDistance between two points, both ways, and from a point to itself
CallCalculateDistance ==
    \E a \in CalcPoints, b \in CalcPoints :
        /\ calc' = Called("CalculateDistance", <<a, b>>,
                       [ab |-> CalculateDistance(a[1], a[2], b[1], b[2]),
                        ba |-> CalculateDistance(b[1], b[2], a[1], a[2]),
                        aa |-> CalculateDistance(a[1], a[2], a[1], a[2])])
        /\ UNCHANGED calcRest

\* FindKNearestNodes with any k: the call panics in make when k is negative
CallFindKNearestNodes ==
    \E ns \in NodeLists \cup {ThirteenNodes}, c \in CalcCoords, k \in -1..(MaxList + 1) :
        /\ calc' = IF MakeSlicePanics(k)
                   THEN [fn |-> "FindKNearestNodes",
                         in |-> [ns |-> ns, x |-> c[1], y |-> c[2], k |-> k],
                         out |-> <<>>, panic |-> TRUE]
                   ELSE Called("FindKNearestNodes",
                               [ns |-> ns, x |-> c[1], y |-> c[2], k |-> k],
                               FindKNearestNodes(ns, c[1], c[2], k))
        /\ UNCHANGED calcRest

CallSelectBestNode ==
    \E ns \in NodeLists :
        /\ calc' = Called("SelectBestNode", ns, SelectBestNode(ns))
        /\ UNCHANGED calcRest

\* Service.RouteRequest without the len(nearestNodes) == 0 check
ServiceRouteRequestNoEmptyCheck(tbl, dbOk, x, y) ==
    IF ~dbOk THEN [node |-> ZeroNode, isNil |-> TRUE, err |-> TRUE]
    ELSE LET rows == GetHealthyNodes(tbl)
             modelNodes == [i \in 1..Len(rows) |-> convertDBNodeToModel(rows[i])]
             nearestNodes == FindKNearestNodes(modelNodes, x, y, KNearest)
         IN  [node |-> SelectBestNode(nearestNodes), isNil |-> FALSE, err |-> FALSE]

\* Service.RouteRequest: (*models.Node, error); dbOk is whether the query
\* GetHealthyNodes succeeded.
ServiceRouteRequest(tbl, dbOk, x, y) ==
    IF ~dbOk THEN [node |-> ZeroNode, isNil |-> TRUE, err |-> TRUE]
    ELSE LET rows == GetHealthyNodes(tbl)
             modelNodes == [i \in 1..Len(rows) |-> convertDBNodeToModel(rows[i])]
             nearestNodes == FindKNearestNodes(modelNodes, x, y, KNearest)
         IN  IF Len(nearestNodes) = 0
             THEN [node |-> ZeroNode, isNil |-> TRUE, err |-> FALSE]
             ELSE [node |-> SelectBestNode(nearestNodes), isNil |-> FALSE,
                   err |-> FALSE]

\* ------------------------------------------------------------- requests
Reqs == 1..NumReqs
Clients == 1..NumClients
MockID == -1                   \* uuid.New(): an id that names no row

NoMsg == [type |-> "none", id |-> NoNode, capacity |-> 0, status |-> "",
          distance |-> 0, score |-> <<0, 1>>]

Message(type, id, capacity, status, distance, score) ==
    [type |-> type, id |-> id, capacity |-> capacity, status |-> status,
     distance |-> distance, score |-> score]

\* UpdateNodeRequest: every field is a pointer, nil when the body omits it;
\* given holds the fields of the body, the other fields their values
Fields == {"location", "capacity", "status"}
NoPartial == [given |-> {}, loc |-> <<0, 0>>, capacity |-> 0, status |-> ""]
Partials ==
    {[given |-> g, loc |-> <<3, 4>>, capacity |-> 5, status |-> "inactive"] :
        g \in SUBSET Fields}

\* what a request was called with, kept to state the claims
NoInput == [bad |-> FALSE, dbOk |-> TRUE, loc |-> <<0, 0>>, healthy |-> {},
            capacity |-> 0, id |-> NoNode, partial |-> NoPartial]

IdleReq == [pc |-> "idle", kind |-> "none", msg |-> NoMsg, code |-> 0,
            body |-> NoNode, in |-> NoInput, existing |-> ZeroRow]

\* the handler has answered with c.JSON(code, ...)
Answer(kind, code, body, in) ==
    [pc |-> "done", kind |-> kind, msg |-> NoMsg, code |-> code, body |-> body,
     in |-> in, existing |-> ZeroRow]

\* the handler is at its send on Hub.Broadcast and answers after it
AtSend(kind, msg, code, body, in) ==
    [pc |-> "send", kind |-> kind, msg |-> msg, code |-> code, body |-> body,
     in |-> in, existing |-> ZeroRow]

\* the handler holds the row GetNodeByID returned and has not yet written
AtStore(kind, existing, in) ==
    [pc |-> "store", kind |-> kind, msg |-> NoMsg, code |-> 0, body |-> NoNode,
     in |-> in, existing |-> existing]

Free(r) == req[r].pc \in {"idle", "done"}

Sending == {r \in Reqs : req[r].pc = "send"}

\* room for one more message within MaxEvents
Budget == Len(published) + Cardinality(Sending) < MaxEvents

HealthyIds(tbl) == {id \in DOMAIN tbl : tbl[id].status = "healthy"}

\* --------------------------------------------- api: PublicHandler (part_000)
\* POST /api/v1/route with the broadcast before the selectedNode == nil check:
\* a request that finds no healthy node broadcasts too
PublicRouteRequestAlwaysBroadcast(r, bad, dbOk, loc) ==
    LET in == [NoInput EXCEPT !.bad = bad, !.dbOk = dbOk, !.loc = loc,
                              !.healthy = HealthyIds(nodes)]
        res == ServiceRouteRequest(nodes, dbOk, loc[1], loc[2])
        selectedNode == res.node
        distance == CalculateDistance(loc[1], loc[2], selectedNode.LocationX,
                                      selectedNode.LocationY)
    IN  /\ Free(r)
        /\ IF bad
           THEN req' = [req EXCEPT ![r] = Answer("route", StatusBadRequest, NoNode, in)]
           ELSE IF res.err
           THEN req' = [req EXCEPT ![r] =
                           Answer("route", StatusInternalServerError, NoNode, in)]
           ELSE /\ Budget
                /\ req' = [req EXCEPT ![r] =
                            AtSend("route",
                                   Message("route_request", selectedNode.ID, 0,
                                           "routed", distance,
                                           IF res.isNil THEN <<0, 1>>
                                           ELSE CalculateLoadScore(selectedNode)),
                                   IF res.isNil THEN StatusServiceUnavailable
                                   ELSE StatusOK,
                                   selectedNode.ID, in)]
        /\ UNCHANGED <<regVars, hubVars, monVars>>

\* POST /api/v1/route that counts the routed request as a connection of the
\* selected node
PublicRouteRequestCounting(r, bad, dbOk, loc) ==
    LET in == [NoInput EXCEPT !.bad = bad, !.dbOk = dbOk, !.loc = loc,
                              !.healthy = HealthyIds(nodes)]
        res == ServiceRouteRequest(nodes, dbOk, loc[1], loc[2])
        selectedNode == res.node
        distance == CalculateDistance(loc[1], loc[2], selectedNode.LocationX,
                                      selectedNode.LocationY)
        loadScore == CalculateLoadScore(selectedNode)
    IN  /\ Free(r)
        /\ IF bad
           THEN /\ req' = [req EXCEPT ![r] =
                            Answer("route", StatusBadRequest, NoNode, in)]
                /\ UNCHANGED regVars
           ELSE IF res.err
           THEN /\ req' = [req EXCEPT ![r] =
                            Answer("route", StatusInternalServerError, NoNode, in)]
                /\ UNCHANGED regVars
           ELSE IF res.isNil
           THEN /\ req' = [req EXCEPT ![r] =
                            Answer("route", StatusServiceUnavailable, NoNode, in)]
                /\ UNCHANGED regVars
           ELSE /\ Budget
                /\ req' = [req EXCEPT ![r] =
                            AtSend("route",
                                   Message("route_request", selectedNode.ID, 0,
                                           "routed", distance, loadScore),
                                   StatusOK, selectedNode.ID, in)]
                /\ nodes' = [nodes EXCEPT ![selectedNode.ID].conns = @ + 1]
                /\ UNCHANGED nextId
        /\ UNCHANGED <<hubVars, monVars>>

\* POST /api/v1/route
PublicRouteRequest(r, bad, dbOk, loc) ==
    LET in == [NoInput EXCEPT !.bad = bad, !.dbOk = dbOk, !.loc = loc,
                              !.healthy = HealthyIds(nodes)]
        res == ServiceRouteRequest(nodes, dbOk, loc[1], loc[2])
        selectedNode == res.node
        distance == CalculateDistance(loc[1], loc[2], selectedNode.LocationX,
                                      selectedNode.LocationY)
        loadScore == CalculateLoadScore(selectedNode)
    IN  /\ Free(r)
        /\ IF bad
           THEN req' = [req EXCEPT ![r] = Answer("route", StatusBadRequest, NoNode, in)]
           ELSE IF res.err
           THEN req' = [req EXCEPT ![r] =
                           Answer("route", StatusInternalServerError, NoNode, in)]
           ELSE IF res.isNil
           THEN req' = [req EXCEPT ![r] =
                           Answer("route", StatusServiceUnavailable, NoNode, in)]
           ELSE /\ Budget
                /\ req' = [req EXCEPT ![r] =
                            AtSend("route",
                                   Message("route_request", selectedNode.ID, 0,
                                           "routed", distance, loadScore),
                                   StatusOK, selectedNode.ID, in)]
        /\ UNCHANGED <<regVars, hubVars, monVars>>

\* POST /api/v1/nodes/register
PublicRegisterNode(r, bad) ==
    LET in == [NoInput EXCEPT !.bad = bad]
    IN  /\ Free(r)
        /\ IF bad
           THEN req' = [req EXCEPT ![r] =
                           Answer("register", StatusBadRequest, NoNode, in)]
           ELSE /\ Budget
                /\ req' = [req EXCEPT ![r] =
                            AtSend("register",
                                   Message("node_registered", MockID, DefaultCapacity,
                                           "active", 0, <<0, 1>>),
                                   StatusCreated, MockID, in)]
        /\ UNCHANGED <<regVars, hubVars, monVars>>

\* ---------------------------------------------- api: AdminHandler (part_001)
\* POST /admin/api/v1/nodes
AdminCreateNode(r, bad, reqCapacity) ==
    LET in == [NoInput EXCEPT !.bad = bad, !.capacity = reqCapacity]
        capacity == IF reqCapacity = 0 THEN DefaultCapacity ELSE reqCapacity
    IN  /\ Free(r)
        /\ IF bad
           THEN req' = [req EXCEPT ![r] =
                           Answer("create", StatusBadRequest, NoNode, in)]
           ELSE /\ Budget
                /\ req' = [req EXCEPT ![r] =
                            AtSend("create",
                                   Message("node_created", MockID, capacity,
                                           "inactive", 0, <<0, 1>>),
                                   StatusCreated, MockID, in)]
        /\ UNCHANGED <<regVars, hubVars, monVars>>

\* PUT /admin/api/v1/nodes/:id   (bad: the id or the body does not parse);
\* the body is bound to req and not read again
AdminUpdateNode(r, bad, id, partial) ==
    LET in == [NoInput EXCEPT !.bad = bad, !.id = id, !.partial = partial]
    IN  /\ Free(r)
        /\ IF bad
           THEN req' = [req EXCEPT ![r] =
                           Answer("update", StatusBadRequest, NoNode, in)]
           ELSE /\ Budget
                /\ req' = [req EXCEPT ![r] =
                            AtSend("update",
                                   Message("node_updated", id, DefaultCapacity,
                                           "active", 0, <<0, 1>>),
                                   StatusOK, id, in)]
        /\ UNCHANGED <<regVars, hubVars, monVars>>

\* DELETE /admin/api/v1/nodes/:id without the broadcast
AdminDeleteNodeSilent(r, bad, id) ==
    LET in == [NoInput EXCEPT !.bad = bad, !.id = id]
    IN  /\ Free(r)
        /\ req' = [req EXCEPT ![r] =
                     Answer("delete", IF bad THEN StatusBadRequest ELSE StatusNoContent,
                            NoNode, in)]
        /\ UNCHANGED <<regVars, hubVars, monVars>>

\* DELETE /admin/api/v1/nodes/:id   (bad: the id does not parse)
AdminDeleteNode(r, bad, id) ==
    LET in == [NoInput EXCEPT !.bad = bad, !.id = id]
    IN  /\ Free(r)
        /\ IF bad
           THEN req' = [req EXCEPT ![r] =
                           Answer("delete", StatusBadRequest, NoNode, in)]
           ELSE /\ Budget
                /\ req' = [req EXCEPT ![r] =
                            AtSend("delete",
                                   Message("node_deleted", id, 0, "", 0, <<0, 1>>),
                                   StatusNoContent, NoNode, in)]
        /\ UNCHANGED <<regVars, hubVars, monVars>>

\* ------------------------------------------ websocket: Hub (hub.go, plan 5.1)
HubIdle == [pc |-> "select", msg |-> 0, todo |-> <<>>]

\* the orders in which a range over a map with the keys S may visit them
RECURSIVE Orders(_)
Orders(S) ==
    IF S = {} THEN {<<>>}
    ELSE UNION {{<<c>> \o o : o \in Orders(S \ {c})} : c \in S}

\* case message := <-h.broadcast, with the loop sending the message before
ReceiveStale(m) ==
    /\ published' = Append(published, m)
    /\ IF clients = {} THEN hub' = HubIdle
       ELSE \E order \in Orders(clients) :
               hub' = [pc |-> "range",
                       msg |-> IF published = <<>> THEN 1 ELSE Len(published),
                       todo |-> order]

\* case message := <-h.broadcast: the loop over h.clients starts
Receive(m) ==
    /\ published' = Append(published, m)
    /\ IF clients = {} THEN hub' = HubIdle
       ELSE \E order \in Orders(clients) :
               hub' = [pc |-> "range", msg |-> Len(published) + 1, todo |-> order]

\* the loop has visited c
Visited(c) ==
    IF Len(hub.todo) = 1 THEN HubIdle ELSE [hub EXCEPT !.todo = Tail(@)]

Panicked == [pc |-> "panic", msg |-> 0, todo |-> <<>>]

\* h.wsHub.Broadcast <- message in a handler meets the hub's select; the
\* handler then answers.
HubReceive(r) ==
    /\ hub.pc = "select"
    /\ req[r].pc = "send"
    /\ Receive(req[r].msg)
    /\ req' = [req EXCEPT ![r] = Answer(req[r].kind, req[r].code, req[r].body,
                                         req[r].in)]
    /\ UNCHANGED <<regVars, monVars, clients, send, closed, conn, delivered,
                   joined, left>>

\* one iteration of the loop with a plain client.send <- message: the hub
\* waits until the buffer has room
HubSendBlocking(c) ==
    /\ hub.pc = "range"
    /\ c = Head(hub.todo)
    /\ c \notin closed
    /\ Len(send[c]) < SendCap
    /\ send' = [send EXCEPT ![c] = Append(@, hub.msg)]
    /\ hub' = Visited(c)
    /\ UNCHANGED <<regVars, monVars, req, clients, closed, conn, delivered,
                   published, joined, left>>

\* one iteration of the loop that makes room in a full buffer by dropping its
\* oldest message, and keeps the client
HubSendDropOldest(c) ==
    /\ hub.pc = "range"
    /\ c = Head(hub.todo)
    /\ c \notin closed
    /\ send' = [send EXCEPT ![c] =
                  IF Len(@) < SendCap THEN Append(@, hub.msg)
                  ELSE Append(Tail(@), hub.msg)]
    /\ hub' = Visited(c)
    /\ UNCHANGED <<regVars, monVars, req, clients, closed, conn, delivered,
                   published, joined, left>>

\* one iteration of the loop over h.clients:
\*   select { case client.send <- message: default: close; delete }
HubSend(c) ==
    /\ hub.pc = "range"
    /\ c = Head(hub.todo)
    /\ IF c \in closed
       THEN /\ hub' = Panicked       \* send on a closed channel
            /\ UNCHANGED <<send, closed, clients, left>>
       ELSE IF Len(send[c]) < SendCap
       THEN /\ send' = [send EXCEPT ![c] = Append(@, hub.msg)]
            /\ hub' = Visited(c)
            /\ UNCHANGED <<closed, clients, left>>
       ELSE /\ closed' = closed \cup {c}
            /\ clients' = clients \ {c}
            /\ left' = [left EXCEPT ![c] = Len(published)]
            /\ hub' = Visited(c)
            /\ UNCHANGED send
    /\ UNCHANGED <<regVars, monVars, req, conn, delivered, published, joined>>

\* case client := <-h.register
HubRegister(c) ==
    /\ hub.pc = "select"
    /\ conn[c] = "registering"
    /\ clients' = clients \cup {c}
    /\ conn' = [conn EXCEPT ![c] = "open"]
    /\ joined' = [joined EXCEPT ![c] = Len(published)]
    /\ UNCHANGED <<regVars, monVars, req, send, closed, hub, delivered, published,
                   left>>

\* case client := <-h.unregister, without removing the client
HubUnregisterKeep(c) ==
    /\ hub.pc = "select"
    /\ conn[c] = "unregistering"
    /\ conn' = [conn EXCEPT ![c] = "gone"]
    /\ UNCHANGED <<regVars, monVars, req, clients, send, closed, hub, delivered,
                   published, joined, left>>

\* case client := <-h.unregister, without the check that the client is still
\* in h.clients: delete, then close whatever the channel's state
HubUnregisterNoCheck(c) ==
    /\ hub.pc = "select"
    /\ conn[c] = "unregistering"
    /\ conn' = [conn EXCEPT ![c] = "gone"]
    /\ IF c \in closed
       THEN /\ hub' = Panicked      \* close of a closed channel
            /\ UNCHANGED <<clients, closed, left>>
       ELSE /\ clients' = clients \ {c}
            /\ closed' = closed \cup {c}
            /\ left' = [left EXCEPT ![c] = Len(published)]
            /\ UNCHANGED hub
    /\ UNCHANGED <<regVars, monVars, req, send, delivered, published, joined>>

\* case client := <-h.unregister
HubUnregister(c) ==
    /\ hub.pc = "select"
    /\ conn[c] = "unregistering"
    /\ conn' = [conn EXCEPT ![c] = "gone"]
    /\ IF c \in clients
       THEN IF c \in closed
            THEN /\ hub' = Panicked  \* close of a closed channel
                 /\ UNCHANGED <<clients, closed, left>>
            ELSE /\ clients' = clients \ {c}
                 /\ closed' = closed \cup {c}
                 /\ left' = [left EXCEPT ![c] = Len(published)]
                 /\ UNCHANGED hub
       ELSE UNCHANGED <<clients, closed, left, hub>>
    /\ UNCHANGED <<regVars, monVars, req, send, delivered, published, joined>>

\* GET /admin/api/v1/realtime: upgrade, make(chan Message, 256), register
HandleWebSocket(c, upgradeOk) ==
    /\ conn[c] = "new"
    /\ conn' = [conn EXCEPT ![c] = IF upgradeOk THEN "registering" ELSE "failed"]
    /\ UNCHANGED <<regVars, monVars, req, clients, send, closed, hub, delivered,
                   published, joined, left>>

\* the connection ends (the client unsubscribes or the transport fails):
\* readPump hands the client to h.unregister
Unsubscribe(c) ==
    /\ conn[c] = "open"
    /\ conn' = [conn EXCEPT ![c] = "unregistering"]
    /\ UNCHANGED <<regVars, monVars, req, clients, send, closed, hub, delivered,
                   published, joined, left>>

\* writePump takes the next message from client.send (a closed channel still
\* yields what it buffered)
WritePump(c) ==
    /\ conn[c] \in {"open", "unregistering", "gone"}
    /\ send[c] # <<>>
    /\ delivered' = [delivered EXCEPT ![c] = Append(@, Head(send[c]))]
    /\ send' = [send EXCEPT ![c] = Tail(@)]
    /\ UNCHANGED <<regVars, monVars, req, clients, closed, hub, conn, published,
                   joined, left>>

\* ------------------- AdminHandler.UpdateNode as planned (PLANS, 1088-1184)
\* the row UpdateNode is called with: the body's fields where given, the row
\* read before for the rest, metrics included
Merged(existing, partial) ==
    [id |-> existing.id,
     x |-> IF "location" \in partial.given THEN partial.loc[1] ELSE existing.x,
     y |-> IF "location" \in partial.given THEN partial.loc[2] ELSE existing.y,
     capacity |-> IF "capacity" \in partial.given THEN partial.capacity
                  ELSE existing.capacity,
     status |-> IF "status" \in partial.given THEN partial.status
                ELSE existing.status,
     cpu |-> existing.cpu, mem |-> existing.mem, conns |-> existing.conns]

\* the first half: GetNodeByID, then bind the body (bad: it does not parse)
UpdateNodeFetch(r, bad, id, partial) ==
    LET in == [NoInput EXCEPT !.bad = bad, !.id = id, !.partial = partial]
        got == GetNodeByID(nodes, id)
    IN  /\ Free(r)
        /\ req' = [req EXCEPT ![r] =
                     IF ~got.found THEN Answer("patch", StatusNotFound, NoNode, in)
                     ELSE IF bad THEN Answer("patch", StatusBadRequest, NoNode, in)
                     ELSE AtStore("patch", got.row, in)]
        /\ UNCHANGED <<regVars, hubVars, monVars>>

\* the second half: the UpdateNode query with the merged row, then the send on
\* Broadcast; the query finds no row when the node was deleted meanwhile
UpdateNodeStore(r) ==
    LET m == Merged(req[r].existing, req[r].in.partial)
        in == req[r].in
    IN  /\ req[r].pc = "store"
        /\ IF in.id \in DOMAIN nodes
           THEN /\ Budget
                /\ UpdateNode(in.id, <<m.x, m.y>>, m.capacity, m.status, m.cpu, m.mem,
                              m.conns)
                /\ req' = [req EXCEPT ![r] =
                            AtSend("patch",
                                   Message("node_updated", in.id, m.capacity, m.status,
                                           0, <<0, 1>>),
                                   StatusOK, in.id, in)]
           ELSE /\ req' = [req EXCEPT ![r] =
                            Answer("patch", StatusInternalServerError, NoNode, in)]
                /\ UNCHANGED regVars
        /\ UNCHANGED <<hubVars, monVars>>

\* ------------------------------------------------ health: Monitor (part_000)
RECURSIVE SumOver(_, _)
SumOver(f, S) ==
    IF S = {} THEN 0
    ELSE LET x == CHOOSE y \in S : TRUE IN f[x] + SumOver(f, S \ {x})

InFlight == SumOver(checks, NodeIds)

\* a tick whose checkAllNodes calls checkNode without go: the loop of Start
\* comes to its next tick only when no check is running
MonitorTickSequential(dbOk) ==
    /\ InFlight = 0
    /\ IF dbOk
       THEN /\ Cardinality(DOMAIN nodes) <= MaxChecks
            /\ checks' = [n \in NodeIds |-> IF n \in DOMAIN nodes THEN 1 ELSE 0]
       ELSE UNCHANGED checks
    /\ UNCHANGED <<regVars, req, hubVars, up, failStreak, okStreak, auxVars>>

\* a tick of Monitor.Start: checkAllNodes starts a checkNode goroutine for every
\* row GetAllNodes returns, whatever its status
MonitorTick(dbOk) ==
    /\ IF dbOk
       THEN /\ InFlight + Cardinality(DOMAIN nodes) <= MaxChecks
            /\ checks' = [n \in NodeIds |->
                            IF n \in Range([i \in 1..Len(GetAllNodes(nodes)) |->
                                              GetAllNodes(nodes)[i].id])
                            THEN checks[n] + 1 ELSE checks[n]]
       ELSE UNCHANGED checks
    /\ UNCHANGED <<regVars, req, hubVars, up, failStreak, okStreak, auxVars>>

MockHealthUpdate == Message("node_health_updated", MockID, 0, "healthy", 0, <<0, 1>>)

\* checkNode(node): no probe and no write to the table; the mock update is sent
\* when the hub is waiting in its select (ready) and skipped otherwise
CheckNode(n, ready) ==
    /\ checks[n] > 0
    /\ checks' = [checks EXCEPT ![n] = @ - 1]
    /\ IF ready
       THEN /\ hub.pc = "select"
            /\ Len(published) + Cardinality(Sending) < MaxEvents
            /\ Receive(MockHealthUpdate)
       ELSE UNCHANGED <<published, hub>>
    /\ UNCHANGED <<regVars, req, clients, send, closed, conn, delivered, joined, left,
                   auxVars>>

\* ---------------------- Monitor.checkNode as planned (PLANS, 1474-1529)
HealthUpdate(n, status) == Message("node_health_updated", n, 0, status, 0, <<0, 1>>)

\* the planned checkNode with an upsert in place of UpdateNodeHealth: a row
\* that is gone is written anew
CheckNodeStoreUpsert(n, cpu, conns) ==
    LET status == IF up[n] THEN "healthy" ELSE "unhealthy"
        row == [NewRow(n, <<0, 0>>, DefaultCapacity, status) EXCEPT
                   !.cpu = IF up[n] THEN cpu ELSE 0,
                   !.conns = IF up[n] THEN conns ELSE 0]
    IN  /\ checks[n] > 0
        /\ checks' = [checks EXCEPT ![n] = @ - 1]
        /\ nodes' = [id \in DOMAIN nodes \cup {n} |->
                        IF id = n
                        THEN IF n \in DOMAIN nodes
                             THEN [nodes[n] EXCEPT !.status = status, !.cpu = row.cpu,
                                                   !.mem = 0, !.conns = row.conns]
                             ELSE row
                        ELSE nodes[id]]
        /\ UNCHANGED nextId
        /\ hub.pc = "select"
        /\ Budget
        /\ Receive(HealthUpdate(n, status))
        /\ UNCHANGED <<req, clients, send, closed, conn, delivered, joined, left,
                       auxVars>>

\* the planned checkNode(node): the probe finds the endpoint up (with the load
\* it reports) or down, UpdateNodeHealth writes the result, and the update is
\* sent to the hub; when the query finds no row (the node was deleted after
\* checkAllNodes read it) checkNode returns at its err != nil
CheckNodeStore(n, cpu, conns) ==
    LET status == IF up[n] THEN "healthy" ELSE "unhealthy"
    IN  /\ checks[n] > 0
        /\ checks' = [checks EXCEPT ![n] = @ - 1]
        /\ IF n \in DOMAIN nodes
           THEN /\ UpdateNodeHealth(n, status, IF up[n] THEN cpu ELSE 0, 0,
                                    IF up[n] THEN conns ELSE 0)
                /\ hub.pc = "select"
                /\ Budget
                /\ Receive(HealthUpdate(n, status))
           ELSE UNCHANGED <<regVars, published, hub>>
        /\ UNCHANGED <<req, clients, send, closed, conn, delivered, joined, left,
                       auxVars>>

\* ------------------------------------------------------ cmd/main.go: main
\* <-quit: SIGINT or SIGTERM arrives and main goes on to srv.Shutdown
Quit ==
    /\ main = "serving"
    /\ main' = "shutdown"
    /\ UNCHANGED <<regVars, req, hubVars, checks, up, failStreak, okStreak, calc>>

\* srv.Shutdown returns and main returns: the process ends and with it every
\* goroutine, the checks in flight included
Exit ==
    /\ main = "shutdown"
    /\ main' = "exited"
    /\ checks' = [n \in NodeIds |-> 0]
    /\ UNCHANGED <<regVars, req, hubVars, up, failStreak, okStreak, calc>>

\* the process is alive: its goroutines run
Running == main # "exited"

\* ---------------------------------------------------- the node's endpoint
\* the environment: a node's health endpoint starts or stops answering
Flip(n) ==
    /\ up' = [up EXCEPT ![n] = ~@]
    /\ UNCHANGED <<regVars, req, hubVars, checks, failStreak, okStreak, auxVars>>

Bump(k) == IF k < FailureThreshold THEN k + 1 ELSE k

\* what a probe of the node's endpoint would have found during this checkNode
Observe(n) ==
    /\ failStreak' = [failStreak EXCEPT ![n] = IF up[n] THEN 0 ELSE Bump(@)]
    /\ okStreak' = [okStreak EXCEPT ![n] = IF up[n] THEN Bump(@) ELSE 0]
    /\ UNCHANGED up

\* --------------------------------------------------------- specifications
InitRest ==
    /\ req = [r \in Reqs |-> IdleReq]
    /\ clients = {}
    /\ send = [c \in Clients |-> <<>>]
    /\ closed = {}
    /\ hub = HubIdle
    /\ conn = [c \in Clients |-> "new"]
    /\ delivered = [c \in Clients |-> <<>>]
    /\ published = <<>>
    /\ joined = [c \in Clients |-> -1]
    /\ left = [c \in Clients |-> -1]
    /\ checks = [n \in NodeIds |-> 0]
    /\ up = [n \in NodeIds |-> TRUE]
    /\ failStreak = [n \in NodeIds |-> 0]
    /\ okStreak = [n \in NodeIds |-> 0]
    /\ main = "serving"
    /\ calc = NoCall

\* a freshly migrated database
InitEmpty ==
    /\ nodes = <<>>
    /\ nextId = 0
    /\ InitRest

\* a database that holds one healthy node when the supervisor starts
SeedTable == [id \in {1} |-> [NewRow(1, <<0, 0>>, 2, "healthy") EXCEPT !.conns = 1]]

Init ==
    /\ nodes = SeedTable
    /\ nextId = 1
    /\ InitRest

\* the queries of nodes.sql applied to the table
SqlCreate ==
    \E loc \in NodeLocs, capacity \in CapVals, status \in Statuses :
        CreateNode(loc, capacity, status) /\ UNCHANGED <<req, hubVars, monVars>>

SqlUpdateHealth ==
    \E id \in NodeIds, status \in Statuses, cpu \in CpuVals, conns \in ConnVals :
        UpdateNodeHealth(id, status, cpu, 0, conns)
            /\ UNCHANGED <<req, hubVars, monVars>>

SqlUpdate ==
    \E id \in NodeIds, loc \in NodeLocs, capacity \in CapVals, status \in Statuses,
       cpu \in CpuVals, conns \in ConnVals :
        UpdateNode(id, loc, capacity, status, cpu, 0, conns)
            /\ UNCHANGED <<req, hubVars, monVars>>

SqlDelete ==
    \E id \in NodeIds : DeleteNode(id) /\ UNCHANGED <<req, hubVars, monVars>>

Route ==
    \E r \in Reqs, bad \in BOOLEAN, dbOk \in BOOLEAN, loc \in ReqLocs :
        Len(published) < MaxRoutes /\ PublicRouteRequest(r, bad, dbOk, loc)

HubStep ==
    \/ \E r \in Reqs : HubReceive(r)
    \/ \E c \in Clients : HubSend(c)
    \/ \E c \in Clients : HubRegister(c)
    \/ \E c \in Clients : HubUnregister(c)

ClientStep ==
    \/ \E c \in Clients, upgradeOk \in BOOLEAN : HandleWebSocket(c, upgradeOk)
    \/ \E c \in Clients : Unsubscribe(c)
    \/ \E c \in Clients : WritePump(c)

Tick == \E dbOk \in BOOLEAN : MonitorTick(dbOk)

Check ==
    \E n \in NodeIds, ready \in BOOLEAN :
        CheckNode(n, ready) /\ UNCHANGED <<up, failStreak, okStreak>>

ObservedCheck ==
    \E n \in NodeIds, ready \in BOOLEAN : CheckNode(n, ready) /\ Observe(n)

Admin ==
    \/ \E r \in Reqs, bad \in BOOLEAN : AdminCreateNode(r, bad, 0)
    \/ \E r \in Reqs, bad \in BOOLEAN : AdminUpdateNode(r, bad, 1, NoPartial)
    \/ \E r \in Reqs, bad \in BOOLEAN : AdminDeleteNode(r, bad, 1)

\* the supervisor with its websocket clients
Next ==
    \/ Admin
    \/ \E r \in Reqs : PublicRouteRequest(r, FALSE, TRUE, <<0, 0>>)
    \/ HubStep
    \/ ClientStep
    \/ Tick
    \/ Check

Spec == Init /\ [][Next]_vars

\* the hub's loop keeps running
SpecLive == Init /\ [][Next]_vars /\ WF_vars(\E c \in Clients : HubSend(c))

\* the handlers that stand for the registry's operations, with their inputs
NextAdmin ==
    \/ \E r \in Reqs, bad \in BOOLEAN, capacity \in {-1, 0, 5} :
          AdminCreateNode(r, bad, capacity)
    \/ \E r \in Reqs, bad \in BOOLEAN, id \in {1, 2}, partial \in Partials :
          AdminUpdateNode(r, bad, id, partial)
    \/ \E r \in Reqs, bad \in BOOLEAN, id \in {1, 2} : AdminDeleteNode(r, bad, id)
    \/ \E r \in Reqs, bad \in BOOLEAN : PublicRegisterNode(r, bad)
    \/ \E r \in Reqs : HubReceive(r)

SpecAdmin == Init /\ [][NextAdmin]_vars

\* routing over a table that changes
NextRouting ==
    \/ SqlCreate
    \/ SqlUpdateHealth
    \/ SqlDelete
    \/ Route
    \/ \E r \in Reqs : HubReceive(r)

SpecRouting == InitEmpty /\ [][NextRouting]_vars

\* the monitor and the nodes' endpoints
NextHealth ==
    \/ SqlCreate
    \/ SqlDelete
    \/ \E n \in NodeIds : Flip(n)
    \/ Tick
    \/ ObservedCheck

SpecHealth == InitEmpty /\ [][NextHealth]_vars

\* the monitor from the start of the process to its end: Monitor.Start is
\* given no context and no stop channel, so it ticks as long as the process
\* is alive
NextShutdown ==
    \/ SqlCreate
    \/ \E n \in NodeIds : Flip(n)
    \/ Running /\ Tick
    \/ Running /\ ObservedCheck
    \/ Quit
    \/ Exit

SpecShutdown == Init /\ [][NextShutdown]_vars

\* the planned monitor, whose checks write their results, over a table whose
\* rows are created and deleted
NextProbe ==
    \/ SqlCreate
    \/ SqlDelete
    \/ \E n \in NodeIds : Flip(n)
    \/ Tick
    \/ \E n \in NodeIds, cpu \in CpuVals, conns \in ConnVals :
          CheckNodeStore(n, cpu, conns) /\ Observe(n)

SpecProbe == InitEmpty /\ [][NextProbe]_vars

\* the functions of the routing package, called on their own
NextCalc ==
    \/ CallCalculateLoadScore
    \/ CallCalculateDistance
    \/ CallFindKNearestNodes
    \/ CallSelectBestNode

SpecCalc == Init /\ [][NextCalc]_vars

\* an administrative update as planned, while the table's health columns are
\* written
NextUpdate ==
    \/ \E r \in Reqs, bad \in BOOLEAN, id \in NodeIds, partial \in Partials :
          UpdateNodeFetch(r, bad, id, partial)
    \/ \E r \in Reqs : UpdateNodeStore(r)
    \/ \E r \in Reqs : HubReceive(r)
    \/ SqlUpdateHealth
    \/ SqlDelete

SpecUpdate == Init /\ [][NextUpdate]_vars

\* ------------------------------------------------------------ the claims
NodeDistance(loc, id) == CalculateDistance(loc[1], loc[2], nodes[id].x, nodes[id].y)

\* C1: a routing request that is well formed, whose query succeeds and that is
\* made while at least one node is healthy is answered 200 with a node, and
\* every node a routing request is answered with was healthy in the table when
\* the request read it; an inactive, active, unhealthy or deleted node is never
\* the answer.
C1_RouteReturnsHealthyNode ==
    \A r \in Reqs :
        (req[r].kind = "route" /\ req[r].pc \in {"send", "done"}) =>
            /\ (~req[r].in.bad /\ req[r].in.dbOk /\ req[r].in.healthy # {})
                  => req[r].code = StatusOK
            /\ req[r].code = StatusOK => req[r].body \in req[r].in.healthy

\* a request was answered with a healthy node although a node that is not
\* healthy lies nearer to the request's coordinate
C1_Witness ==
    \E r \in Reqs :
        /\ req[r].kind = "route"
        /\ req[r].pc = "done"
        /\ req[r].code = StatusOK
        /\ req[r].body \in DOMAIN nodes
        /\ req[r].in.healthy = HealthyIds(nodes)
        /\ \E n \in DOMAIN nodes :
              /\ nodes[n].status = "unhealthy"
              /\ NodeDistance(req[r].in.loc, n) < NodeDistance(req[r].in.loc, req[r].body)

\* C2: a well-formed routing request whose query succeeds while no node is
\* healthy is answered 503 (Unavailable) with no node; 503 is given for nothing
\* else, a malformed request is answered 400 and a failed query 500, so the three
\* outcomes differ.
C2_NoHealthyNodeIsUnavailable ==
    \A r \in Reqs :
        (req[r].kind = "route" /\ req[r].pc = "done") =>
            /\ (~req[r].in.bad /\ req[r].in.dbOk /\ req[r].in.healthy = {})
                  => (req[r].code = StatusServiceUnavailable /\ req[r].body = NoNode)
            /\ req[r].code = StatusServiceUnavailable
                  => (~req[r].in.bad /\ req[r].in.dbOk /\ req[r].in.healthy = {})
            /\ req[r].in.bad => req[r].code = StatusBadRequest
            /\ req[r].code = StatusOK => req[r].body # NoNode
            /\ StatusServiceUnavailable
                  \notin {StatusOK, StatusBadRequest, StatusInternalServerError}

\* a request was answered 503 while the table held nodes, none of them healthy
C2_Witness ==
    \E r \in Reqs :
        /\ req[r].kind = "route"
        /\ req[r].pc = "done"
        /\ req[r].code = StatusServiceUnavailable
        /\ DOMAIN nodes # {}
        /\ req[r].in.healthy = {}
        /\ HealthyIds(nodes) = {}

\* C3: a probed node (active, healthy or unhealthy) whose endpoint was found
\* down by FailureThreshold consecutive checks has status unhealthy.
C3_FailuresMakeUnhealthy ==
    \A n \in DOMAIN nodes :
        (nodes[n].status \in {"active", "healthy", "unhealthy"}
            /\ failStreak[n] >= FailureThreshold)
        => nodes[n].status = "unhealthy"

\* C4: an unhealthy node whose endpoint was found up by RecoveryThreshold
\* consecutive checks is healthy: no node is still unhealthy after them.
C4_RecoveryMakesHealthy ==
    \A n \in DOMAIN nodes :
        nodes[n].status = "unhealthy" => okStreak[n] < RecoveryThreshold

\* what connection c has been handed: what writePump took, then what is buffered
Got(c) == delivered[c] \o send[c]

\* the hub's loop for message k has not yet come to c
Pending(c, k) == hub.pc = "range" /\ hub.msg = k /\ c \in Range(hub.todo)

\* c was registered when the hub received message k
RegisteredAt(c, k) ==
    /\ joined[c] >= 0
    /\ joined[c] < k
    /\ (left[c] = -1 \/ left[c] >= k)

EventOf(kind) ==
    CASE kind = "create" -> "node_created"
      [] kind = "register" -> "node_registered"
      [] kind = "update" -> "node_updated"
      [] kind = "delete" -> "node_deleted"
      [] kind = "route" -> "route_request"
      [] OTHER -> "none"

Success(code) == code \in {StatusOK, StatusCreated, StatusNoContent}

C6_FullSubscriberDoesNotStarveOthers ==
    \A c \in Clients : \A k \in 1..MaxEvents :
        (Pending(c, k) /\ Len(send[c]) < SendCap) ~> (k \in Range(Got(c)))

\* a connection that was never drained was removed with its buffer full, and
\* another connection was handed the message that found the buffer full
C6_Witness ==
    \E a \in Clients : \E c \in Clients \ {a} :
        /\ delivered[a] = <<>>
        /\ Len(send[a]) = SendCap
        /\ a \in closed
        /\ left[a] >= 1
        /\ left[a] \notin Range(Got(a))
        /\ left[a] \in Range(Got(c))

\* C7: a handler that is at its send on Broadcast can complete it.
C7_PublishNeverBlocks ==
    \A r \in Reqs : req[r].pc = "send" => ENABLED HubReceive(r)

C10_RemovedSubscriberGetsNothing ==
    /\ clients = {c \in Clients : joined[c] >= 0 /\ left[c] = -1}
    /\ clients \cap closed = {}
    /\ \A c \in Clients :
          /\ conn[c] = "gone" => (c \notin clients /\ c \in closed)
          /\ c \in closed => \A i \in 1..Len(Got(c)) : Got(c)[i] <= left[c]
          /\ conn[c] \in {"new", "registering", "failed"}
                => (c \notin clients /\ Got(c) = <<>>)

\* a connection unsubscribed and a message was published afterwards, which a
\* connection that stayed was handed
C10_Witness ==
    \E c \in Clients : \E d \in Clients \ {c} :
        /\ conn[c] = "gone"
        /\ left[c] >= 0
        /\ left[c] < Len(published)
        /\ d \in clients
        /\ Len(published) \in Range(Got(d))

\* C8: every row of the table has a capacity above 0, and a CreateNode call
\* with a capacity of 0 or less is answered 400 and broadcasts nothing.
C8_CapacityValidated ==
    /\ \A n \in DOMAIN nodes : nodes[n].capacity > 0
    /\ \A r \in Reqs :
          (req[r].kind = "create" /\ req[r].pc \in {"send", "done"}
              /\ req[r].in.capacity <= 0)
          => (req[r].pc = "done" /\ req[r].code = StatusBadRequest)

\* C11: the write of an administrative update leaves every column the body did
\* not give as it was just before the write (the metrics and status a health
\* update wrote meanwhile included) and sets every column the body gave.
C11_NoLostUpdate ==
    [][\A r \in Reqs :
          (req[r].pc = "store" /\ req'[r].pc = "send") =>
              LET id == req[r].in.id
                  p == req[r].in.partial
              IN  /\ nodes'[id].cpu = nodes[id].cpu
                  /\ nodes'[id].mem = nodes[id].mem
                  /\ nodes'[id].conns = nodes[id].conns
                  /\ nodes'[id].status =
                        IF "status" \in p.given THEN p.status ELSE nodes[id].status
                  /\ nodes'[id].capacity =
                        IF "capacity" \in p.given THEN p.capacity
                        ELSE nodes[id].capacity]_vars

\* C12: every checkNode goroutine in flight can finish whatever the other
\* checks are doing, and a tick can start its checks while checks of earlier
\* ticks are still running (within MaxChecks).
C12_ProbesIndependent ==
    /\ \A n \in NodeIds :
          checks[n] > 0 => ENABLED (CheckNode(n, FALSE) /\ Observe(n))
    /\ InFlight + Cardinality(DOMAIN nodes) <= MaxChecks => ENABLED MonitorTick(TRUE)

\* of two nodes checked in one tick, the check of one is still running while
\* the check of the other has finished
C12_Witness ==
    \E n \in DOMAIN nodes : \E o \in DOMAIN nodes \ {n} :
        /\ checks[n] > 0
        /\ failStreak[n] = 0 /\ okStreak[n] = 0
        /\ checks[o] = 0
        /\ failStreak[o] + okStreak[o] > 0

\* C13: once main has received the signal, no new checkNode is started: the
\* number of checks in flight for a node does not grow.
C13_ShutdownStopsMonitor ==
    [][main = "shutdown" => \A n \in NodeIds : checks'[n] <= checks[n]]_vars

\* C14: after an update of a stored node was answered 200, every field the
\* body gave has the given value in the node's row.
C14_PatchSemantics ==
    \A r \in Reqs :
        (req[r].kind = "update" /\ req[r].pc = "done" /\ req[r].code = StatusOK
            /\ req[r].in.id \in DOMAIN nodes) =>
            LET p == req[r].in.partial
                row == nodes[req[r].in.id]
            IN  /\ "capacity" \in p.given => row.capacity = p.capacity
                /\ "status" \in p.given => row.status = p.status
                /\ "location" \in p.given => <<row.x, row.y>> = p.loc

\* C15: an update or a delete whose id parses and names no stored node is
\* answered 404 and hands no message to the hub.
C15_UnknownIdIsNotFound ==
    \A r \in Reqs :
        (req[r].kind \in {"update", "delete"} /\ req[r].pc \in {"send", "done"}
            /\ ~req[r].in.bad /\ req[r].in.id \notin DOMAIN nodes) =>
            (req[r].pc = "done" /\ req[r].code = StatusNotFound)

\* C16: the node a create or register call answers 201 with has status
\* inactive (no request body has a field that asks for activation), and never
\* healthy or unhealthy.
C16_RegisteredInactive ==
    \A r \in Reqs :
        (req[r].kind \in {"create", "register"} /\ req[r].pc = "send"
            /\ req[r].code = StatusCreated) =>
            req[r].msg.status = "inactive"

\* C17: with capacity above 0 and cpu, memory and capacity fixed, the score
\* of a node with more active connections is never lower, and it is not
\* clamped: more connections raise it, past the capacity too.
C17_ScoreMonotonic ==
    calc.fn = "CalculateLoadScore" =>
        /\ ~ScoreLess(calc.out.raised, calc.out.base)
        /\ calc.in.more > 0 => ScoreLess(calc.out.base, calc.out.raised)

\* a node with more connections than its capacity got still more, and its
\* score went up to above 1.0
C17_Witness ==
    /\ calc.fn = "CalculateLoadScore"
    /\ calc.in.node.ActiveConnections > calc.in.node.Capacity
    /\ calc.in.more > 0
    /\ ScoreLess(calc.out.base, calc.out.raised)
    /\ calc.out.raised[1] > calc.out.raised[2]

\* C18: the distance from a to b is the distance from b to a, it is not
\* negative, and the distance from a point to itself is 0.
C18_DistanceSymmetric ==
    calc.fn = "CalculateDistance" =>
        /\ calc.out.ab = calc.out.ba
        /\ calc.out.ab >= 0
        /\ calc.out.aa = 0

\* two different points, one of them with negative coordinates, at the same
\* distance above 0 both ways
C18_Witness ==
    /\ calc.fn = "CalculateDistance"
    /\ calc.in[1] # calc.in[2]
    /\ calc.in[1][1] < 0
    /\ calc.out.ab > 0
    /\ calc.out.ab = calc.out.ba

\* C19: FindKNearestNodes returns the k nearest healthy nodes in ascending
\* order of distance, nodes at the same distance in the order of the input:
\* the node returned at place r is the healthy node that r - 1 healthy nodes
\* are nearer than, or as near and earlier in the input.
C19_KNearestStable ==
    calc.fn = "FindKNearestNodes" =>
        LET healthy == SelectSeq(calc.in.ns, LAMBDA n : n.Status = "healthy")
            Dist(i) == CalculateDistance(calc.in.x, calc.in.y,
                                         healthy[i].LocationX, healthy[i].LocationY)
            Rank(i) == 1 + Cardinality({j \in 1..Len(healthy) :
                            Dist(j) < Dist(i) \/ (Dist(j) = Dist(i) /\ j < i)})
            n == IF calc.in.k < Len(healthy) THEN calc.in.k ELSE Len(healthy)
        IN  calc.out = [r \in 1..n |-> healthy[CHOOSE i \in 1..Len(healthy) : Rank(i) = r]]

\* C20: SelectBestNode returns a node of the list whose score no node of the
\* list is below, and every node before it in the list has a higher score.
C20_MinScoreFirst ==
    (calc.fn = "SelectBestNode" /\ calc.in # <<>>) =>
        \E i \in 1..Len(calc.in) :
            /\ calc.out = calc.in[i]
            /\ \A j \in 1..Len(calc.in) :
                  ~ScoreLess(CalculateLoadScore(calc.in[j]), CalculateLoadScore(calc.out))
            /\ \A j \in 1..(i - 1) :
                  ScoreLess(CalculateLoadScore(calc.out), CalculateLoadScore(calc.in[j]))

\* two different nodes share the lowest score and the one that comes first in
\* the list was returned, a node with a higher score standing before both
C20_Witness ==
    /\ calc.fn = "SelectBestNode"
    /\ \E h \in 1..Len(calc.in) : \E i \in 1..Len(calc.in) : \E j \in 1..Len(calc.in) :
          /\ h < i /\ i < j
          /\ ScoreLess(CalculateLoadScore(calc.in[i]), CalculateLoadScore(calc.in[h]))
          /\ CalculateLoadScore(calc.in[i]) = CalculateLoadScore(calc.in[j])
          /\ calc.out = calc.in[i]

\* C21: no call of FindKNearestNodes fails; a call with k <= 0 returns what
\* the call with k = 1 returns, and a call with k above the number of healthy
\* nodes returns all healthy nodes.
C21_KClamped ==
    calc.fn = "FindKNearestNodes" =>
        LET healthy == SelectSeq(calc.in.ns, LAMBDA n : n.Status = "healthy")
        IN  /\ ~calc.panic
            /\ calc.in.k <= 0 =>
                  calc.out = FindKNearestNodes(calc.in.ns, calc.in.x, calc.in.y, 1)
            /\ calc.in.k > Len(healthy) =>
                  {calc.out[i] : i \in 1..Len(calc.out)} =
                      {healthy[i] : i \in 1..Len(healthy)}

\* the hub's loop is at connection c, whose buffer is full
AtFull(c) ==
    /\ hub.pc = "range"
    /\ c = Head(hub.todo)
    /\ c \notin closed
    /\ Len(send[c]) = SendCap

\* C22 as stated: when the loop comes to a connection whose buffer is full, the
\* oldest buffered message is dropped and the new one is buffered.
C22_DropOldest ==
    [][\A c \in Clients :
          (AtFull(c) /\ hub' # hub) => send'[c] = Append(Tail(send[c]), hub.msg)]_vars

\* C22 amended: a buffer never holds more than SendCap messages; when the loop
\* comes to a connection whose buffer is full, the hub can take the step at
\* once, and the step closes and removes that connection, leaves its buffer
\* and every other connection's buffer as they are, and moves the loop on.
C22_FullSubscriberRemoved ==
    /\ [](\A c \in Clients :
            /\ Len(send[c]) <= SendCap
            /\ AtFull(c) => ENABLED HubSend(c))
    /\ [][\A c \in Clients :
            (AtFull(c) /\ hub' # hub) =>
                /\ send' = send
                /\ closed' = closed \cup {c}
                /\ clients' = clients \ {c}
                /\ hub' = Visited(c)
                /\ published' = published]_vars

\* a connection that is still open on its side was removed by the loop with
\* its buffer full: the buffer still holds the older message and not the one
\* that found it full
C22_Witness ==
    \E c \in Clients :
        /\ conn[c] = "open"
        /\ c \in closed
        /\ c \notin clients
        /\ Len(send[c]) = SendCap
        /\ left[c] >= 2
        /\ send[c][1] < left[c]
        /\ left[c] \notin Range(Got(c))

\* C23: once the hub has received the event of a change, the table shows the
\* change: the node of a node_deleted event is absent, and the node of a
\* node_registered or node_created event is present (no row is deleted in the
\* behaviours this is checked on, apart from what the events announce).
C23_EventAfterChange ==
    \A k \in 1..Len(published) :
        /\ published[k].type = "node_deleted" => published[k].id \notin DOMAIN nodes
        /\ published[k].type \in {"node_registered", "node_created"}
              => published[k].id \in DOMAIN nodes

C25_InactiveNotProbed ==
    [][/\ \A n \in NodeIds :
            checks'[n] > checks[n] =>
                (n \in DOMAIN nodes /\ nodes[n].status # "inactive")
       /\ checks' # checks =>
            \A n \in DOMAIN nodes :
                nodes[n].status = "inactive" =>
                    (n \in DOMAIN nodes' /\ nodes'[n] = nodes[n])]_vars

\* C26: an administrative deactivation (an update whose body gives the status
\* inactive) of a stored node that was answered 200 has left the node
\* inactive, whatever the node's status was.
C26_DeactivationApplies ==
    \A r \in Reqs :
        (req[r].kind = "update" /\ req[r].pc = "done" /\ req[r].code = StatusOK
            /\ "status" \in req[r].in.partial.given
            /\ req[r].in.partial.status = "inactive"
            /\ req[r].in.id \in DOMAIN nodes) =>
            nodes[req[r].in.id].status = "inactive"

\* what a step does to the events of routing calls, the event's type being
\* type: a call comes to its send on Broadcast only with a node to return, and
\* its message has that type and carries the node's id, its distance from
\* the request's coordinate and its score; a call answered 200 has handed
\* exactly that message to the hub, and a call answered otherwise has handed
\* nothing; nothing else hands the hub a message.
RouteEvents(type) ==
    /\ \A r \in Reqs :
          (req'[r] # req[r] /\ req'[r].kind = "route") =>
              IF req'[r].pc = "send"
              THEN LET m == req'[r].msg
                       id == req'[r].body
                   IN  /\ req'[r].code = StatusOK
                       /\ id \in DOMAIN nodes
                       /\ m.type = type
                       /\ m.id = id
                       /\ m.distance = NodeDistance(req'[r].in.loc, id)
                       /\ m.score = CalculateLoadScore(convertDBNodeToModel(nodes[id]))
                       /\ published' = published
              ELSE IF req'[r].code = StatusOK
              THEN /\ req[r].pc = "send"
                   /\ req'[r].body = req[r].msg.id
                   /\ published' = Append(published, req[r].msg)
              ELSE /\ req[r].pc # "send"
                   /\ published' = published
    /\ published' # published =>
          \E r \in Reqs : req[r].pc = "send" /\ req'[r].pc = "done"

C28_ClosedOnce ==
    /\ [](hub.pc # "panic")
    /\ [][/\ closed' # closed =>
                \E c \in Clients :
                    /\ c \notin closed
                    /\ c \in clients
                    /\ closed' = closed \cup {c}
                    /\ clients' = clients \ {c}
          /\ \A c \in Clients :
                (c \in closed /\ send'[c] # send[c]) => send'[c] = Tail(send[c])]_vars

\* a connection that the loop removed with its buffer full has since asked
\* to be unregistered, the hub has handled the request, and the hub is back
\* in its select
C28_Witness ==
    \E c \in Clients :
        /\ conn[c] = "gone"
        /\ c \in closed
        /\ left[c] >= 1
        /\ left[c] \notin Range(Got(c))
        /\ Len(Got(c)) >= SendCap
        /\ hub.pc = "select"

\* the ids of the rows that were deleted: handed out and no longer present
Deleted == (1..nextId) \ DOMAIN nodes

\* C29: no step brings a deleted row back; the step of a check changes no
\* row but the checked node's, and when the checked node is deleted it
\* changes no row and sends no update; and no read (GetNodeByID, GetAllNodes,
\* a routing request) returns a deleted node.
C29_LateProbeResult ==
    /\ [](\A id \in Deleted :
            /\ ~GetNodeByID(nodes, id).found
            /\ \A i \in 1..Len(GetAllNodes(nodes)) : GetAllNodes(nodes)[i].id # id
            /\ \A loc \in ReqLocs :
                  ServiceRouteRequest(nodes, TRUE, loc[1], loc[2]).node.ID # id)
    /\ [][/\ \A id \in Deleted : id \notin DOMAIN nodes'
          /\ \A n \in NodeIds :
                checks'[n] < checks[n] =>
                    /\ DOMAIN nodes' = DOMAIN nodes
                    /\ \A m \in DOMAIN nodes \ {n} : nodes'[m] = nodes[m]
                    /\ n \in Deleted => (nodes' = nodes /\ published' = published)]_vars

\* node n is deleted and another node is stored; the last two checks of n
\* found its endpoint up and only one of them sent an update: the other came
\* back after the row was deleted
C29_Witness ==
    \E n \in Deleted :
        /\ DOMAIN nodes # {}
        /\ checks[n] = 0
        /\ okStreak[n] = 2
        /\ Cardinality({k \in 1..Len(published) : published[k].id = n}) = 1

\* C30: no step of a routing call, from its start to its answer, changes the
\* table: the rows present and every column of every row stay as they are.
C30_RouteReadOnly ==
    [][(\E r \in Reqs : req'[r] # req[r] /\ req'[r].kind = "route") =>
          (nodes' = nodes /\ nextId' = nextId)]_vars

\* a call was answered 200 with a healthy node that has an active connection
\* and a cpu load, while a second node is stored
C30_Witness ==
    \E r \in Reqs :
        /\ req[r].kind = "route"
        /\ req[r].pc = "done"
        /\ req[r].code = StatusOK
        /\ req[r].body \in DOMAIN nodes
        /\ nodes[req[r].body].status = "healthy"
        /\ nodes[req[r].body].conns = 1
        /\ nodes[req[r].body].cpu > 0
        /\ Cardinality(DOMAIN nodes) = 2

====
